---------------------------- MODULE Spec2Model ----------------------------
(***************************************************************************)
(* Huffman coding script Watts_Portfolio_Week8_V6.py: tally, build_nodes,  *)
(* huffman_encode, create_huffman_string, decode and the two size          *)
(* functions, run in the order of the module-level pipeline.               *)
(*                                                                         *)
(* A Python str is a sequence of one-character strings.  A dict is the     *)
(* sequence of its <<key, value>> items in insertion order (the order      *)
(* dict.items() iterates in).  A leaf of the code tree is [char |-> c]     *)
(* (a Python str), an internal node is [left |-> l, right |-> r]           *)
(* (a NodeTree object).                                                    *)
(***************************************************************************)
EXTENDS Integers, Sequences, FiniteSets

\* Longest phrase read from the input file.
MaxLen == 4
\* Longest bitstring handed to decode when it is called on its own.
MaxBits == 5
\* Longest code of a code table handed to decode when it is called on its own.
MaxCodeLen == 2

\* The characters a phrase is made of.
Symbols == {"a", "b", "c", "d"}
\* The keys, in insertion order, of a code table handed to decode on its own.
TableKeys == <<"a", "b", "c">>
Bit == {"0", "1"}

VARIABLES
    pc,              \* position in the module-level pipeline / in decode
    new_phrase,      \* line 187
    char_tally,      \* line 191
    tally_list,      \* build_nodes' local list, lines 73-80
    node_tree,       \* line 200
    huffman_code,    \* line 210
    encoded_string,  \* line 224
    original_size,   \* line 228
    new_size,        \* line 229
    huffman_dict,    \* decode's parameter
    huffman_string,  \* decode's parameter
    i,               \* number of characters of huffman_string consumed by decode's loop
    text,            \* decode's local, its return value
    temp_huff,       \* decode's local
    raised           \* the exception that ended the run, "none" when there is none

vars == <<pc, new_phrase, char_tally, tally_list, node_tree, huffman_code,
          encoded_string, original_size, new_size, huffman_dict,
          huffman_string, i, text, temp_huff, raised>>

---------------------------------------------------------------------------
\* Strings and dicts

\* All strings over alphabet of length at most n.
StrUpTo(alphabet, n) == UNION {[1..k -> alphabet] : k \in 0..n}

Front(s) == SubSeq(s, 1, Len(s) - 1)

\* letter in phrase_dict
HasKey(dict, key) == \E k \in 1..Len(dict) : dict[k][1] = key

\* phrase_dict[letter]
Get(dict, key) == dict[CHOOSE k \in 1..Len(dict) : dict[k][1] = key][2]

\* phrase_dict[letter] = value: an existing key keeps its place, a new one goes last.
Put(dict, key, value) ==
    IF HasKey(dict, key)
    THEN [k \in 1..Len(dict) |-> IF dict[k][1] = key THEN <<key, value>> ELSE dict[k]]
    ELSE Append(dict, <<key, value>>)

\* dict.update(other)
RECURSIVE update(_, _)
update(dict, other) ==
    IF Len(other) = 0 THEN dict
    ELSE update(Put(dict, other[1][1], other[1][2]), Tail(other))

\* sorted(list, key=itemgetter(1), reverse=True): stable, descending in the
\* second component, so equal keys keep their order in list.
InsertDesc(item, s) ==
    LET n == Cardinality({k \in 1..Len(s) : s[k][2] >= item[2]})
    IN SubSeq(s, 1, n) \o <<item>> \o SubSeq(s, n + 1, Len(s))

RECURSIVE sorted(_)
sorted(list) ==
    IF Len(list) = 0 THEN <<>>
    ELSE InsertDesc(list[Len(list)], sorted(Front(list)))

---------------------------------------------------------------------------
\* NodeTree

NodeTree(left, right) == [left |-> left, right |-> right]

\* type(node) is str
IsStr(node) == "char" \in DOMAIN node

Leaf(c) == [char |-> c]

---------------------------------------------------------------------------
\* tally(phrase), lines 50-62

\* A new letter entered with a count of 0 instead of 1.
tally_else_zero(phrase_dict, letter) == Put(phrase_dict, letter, 0)

\* lines 58-59
tally_else(phrase_dict, letter) == Put(phrase_dict, letter, 1)

\* The loop of lines 55-59 over the first n letters.
RECURSIVE phrase_dict_after(_, _)
phrase_dict_after(phrase, n) ==
    IF n = 0 THEN <<>>
    ELSE LET phrase_dict == phrase_dict_after(phrase, n - 1)
             letter == phrase[n]
         IN IF HasKey(phrase_dict, letter)
            THEN Put(phrase_dict, letter, Get(phrase_dict, letter) + 1)
            ELSE tally_else(phrase_dict, letter)

tally(phrase) == sorted(phrase_dict_after(phrase, Len(phrase)))

\* The leaves the pipeline's tree is built from: the characters of the tally.
AsItems(phrase_list) ==
    [k \in 1..Len(phrase_list) |-> <<Leaf(phrase_list[k][1]), phrase_list[k][2]>>]

---------------------------------------------------------------------------
\* build_nodes(tally_list), lines 65-82: one iteration of the while loop.

\* The list left as it is after the append, line 80 missing.
build_nodes_no_resort(list) == list

\* line 80
build_nodes_resort(list) == sorted(list)

build_nodes_iter(list) ==
    LET char_1 == list[Len(list)][1]
        freq_1 == list[Len(list)][2]
        char_2 == list[Len(list) - 1][1]
        freq_2 == list[Len(list) - 1][2]
        rest   == SubSeq(list, 1, Len(list) - 2)
        node   == NodeTree(char_1, char_2)
    IN build_nodes_resort(Append(rest, <<node, freq_1 + freq_2>>))

---------------------------------------------------------------------------
\* huffman_encode(node, left, bin_string), lines 85-104.  The parameter left
\* is overwritten on line 97 before it is read, so it is left out.

\* The same bit appended on the way left and on the way right.
RECURSIVE huffman_encode_same_bit(_, _)
huffman_encode_same_bit(node, bin_string) ==
    IF IsStr(node) THEN <<<<node.char, bin_string>>>>
    ELSE LET left  == node.left
             right == node.right
             d1 == update(<<>>, huffman_encode_same_bit(left, Append(bin_string, "0")))
         IN update(d1, huffman_encode_same_bit(right, Append(bin_string, "0")))

RECURSIVE huffman_encode(_, _)
huffman_encode(node, bin_string) ==
    IF IsStr(node) THEN <<<<node.char, bin_string>>>>
    ELSE LET left  == node.left
             right == node.right
             d1 == update(<<>>, huffman_encode(left, Append(bin_string, "0")))
         IN update(d1, huffman_encode(right, Append(bin_string, "1")))

---------------------------------------------------------------------------
\* create_huffman_string(node, left, bin_string), lines 122-129.

RECURSIVE create_huffman_string(_, _)
create_huffman_string(node, bin_string) ==
    IF IsStr(node) THEN bin_string
    ELSE LET left  == node.left
             right == node.right
             b1 == bin_string \o create_huffman_string(left, Append(bin_string, "0"))
         IN b1 \o create_huffman_string(right, Append(b1, "1"))

---------------------------------------------------------------------------
\* size_of_original(phrase), lines 153-156
size_of_original(phrase) == Len(phrase) * 8

\* size_of_coded(c_tally, n_tree), lines 159-167
RECURSIVE size_of_coded(_, _)
size_of_coded(c_tally, n_tree) ==
    IF Len(c_tally) = 0 THEN 0
    ELSE size_of_coded(Front(c_tally), n_tree)
         + Len(Get(n_tree, c_tally[Len(c_tally)][1])) * c_tally[Len(c_tally)][2]

---------------------------------------------------------------------------
\* The pipeline, lines 186-244

Phrases == StrUpTo(Symbols, MaxLen)

Init ==
    /\ new_phrase \in Phrases
    /\ pc = "tally"
    /\ char_tally = <<>>
    /\ tally_list = <<>>
    /\ node_tree = <<>>
    /\ huffman_code = <<>>
    /\ encoded_string = <<>>
    /\ original_size = 0
    /\ new_size = 0
    /\ huffman_dict = <<>>
    /\ huffman_string = <<>>
    /\ i = 0
    /\ text = <<>>
    /\ temp_huff = <<>>
    /\ raised = "none"

\* line 191
Tally ==
    /\ pc = "tally"
    /\ char_tally' = tally(new_phrase)
    /\ pc' = "build_nodes"
    /\ UNCHANGED <<new_phrase, tally_list, node_tree, huffman_code, encoded_string,
                   original_size, new_size, huffman_dict, huffman_string, i, text,
                   temp_huff, raised>>

\* line 200: the call binds the parameter tally_list
BuildNodesCall ==
    /\ pc = "build_nodes"
    /\ tally_list' = AsItems(char_tally)
    /\ pc' = "build_loop"
    /\ UNCHANGED <<new_phrase, char_tally, node_tree, huffman_code, encoded_string,
                   original_size, new_size, huffman_dict, huffman_string, i, text,
                   temp_huff, raised>>

\* lines 73-80
BuildNodesIter ==
    /\ pc = "build_loop"
    /\ Len(tally_list) > 1
    /\ tally_list' = build_nodes_iter(tally_list)
    /\ UNCHANGED <<pc, new_phrase, char_tally, node_tree, huffman_code, encoded_string,
                   original_size, new_size, huffman_dict, huffman_string, i, text,
                   temp_huff, raised>>

\* line 82, assigned on line 200
BuildNodesReturn ==
    /\ pc = "build_loop"
    /\ ~(Len(tally_list) > 1)
    /\ node_tree' = tally_list
    /\ pc' = "huffman_encode"
    /\ UNCHANGED <<new_phrase, char_tally, tally_list, huffman_code, encoded_string,
                   original_size, new_size, huffman_dict, huffman_string, i, text,
                   temp_huff, raised>>

\* line 210: node_tree[0][0] of an empty list raises IndexError, which nothing catches
HuffmanEncode ==
    /\ pc = "huffman_encode"
    /\ \/ /\ Len(node_tree) = 0
          /\ raised' = "IndexError"
          /\ pc' = "crashed"
          /\ UNCHANGED huffman_code
       \/ /\ Len(node_tree) > 0
          /\ huffman_code' = huffman_encode(node_tree[1][1], <<>>)
          /\ pc' = "create_huffman_string"
          /\ UNCHANGED raised
    /\ UNCHANGED <<new_phrase, char_tally, tally_list, node_tree, encoded_string,
                   original_size, new_size, huffman_dict, huffman_string, i, text,
                   temp_huff>>

\* line 224
CreateHuffmanString ==
    /\ pc = "create_huffman_string"
    /\ encoded_string' = create_huffman_string(node_tree[1][1], <<>>)
    /\ pc' = "sizes"
    /\ UNCHANGED <<new_phrase, char_tally, tally_list, node_tree, huffman_code,
                   original_size, new_size, huffman_dict, huffman_string, i, text,
                   temp_huff, raised>>

\* lines 228-229
Sizes ==
    /\ pc = "sizes"
    /\ original_size' = size_of_original(new_phrase)
    /\ new_size' = size_of_coded(char_tally, huffman_code)
    /\ pc' = "decode"
    /\ UNCHANGED <<new_phrase, char_tally, tally_list, node_tree, huffman_code,
                   encoded_string, huffman_dict, huffman_string, i, text,
                   temp_huff, raised>>

\* line 244: the call binds decode's parameters; lines 141-142
DecodeCall ==
    /\ pc = "decode"
    /\ huffman_dict' = huffman_code
    /\ huffman_string' = encoded_string
    /\ text' = <<>>
    /\ temp_huff' = <<>>
    /\ i' = 0
    /\ pc' = "decode_loop"
    /\ UNCHANGED <<new_phrase, char_tally, tally_list, node_tree, huffman_code,
                   encoded_string, original_size, new_size, raised>>

---------------------------------------------------------------------------
\* decode(huffman_dict, huffman_string), lines 132-150

\* temp_huff kept after a match, line 148 missing.
decode_keep(t) == t

\* lines 147-148: what a match does to temp_huff
decode_reset(t) == <<>>

\* lines 144-149: one iteration of the outer loop on (text, temp_huff) with char
decode_char(dict, txt, tmp, char) ==
    LET t == Append(tmp, char)
        hits == {k \in 1..Len(dict) : dict[k][2] = t}
    IN IF hits = {} THEN <<txt, t>>
       ELSE LET first == CHOOSE k \in hits : \A m \in hits : k <= m
            IN <<Append(txt, dict[first][1]), decode_reset(t)>>

DecodeStep ==
    /\ pc = "decode_loop"
    /\ i < Len(huffman_string)
    /\ LET r == decode_char(huffman_dict, text, temp_huff, huffman_string[i + 1])
       IN /\ text' = r[1]
          /\ temp_huff' = r[2]
    /\ i' = i + 1
    /\ UNCHANGED <<pc, new_phrase, char_tally, tally_list, node_tree, huffman_code,
                   encoded_string, original_size, new_size, huffman_dict,
                   huffman_string, raised>>

\* line 150
DecodeReturn ==
    /\ pc = "decode_loop"
    /\ i = Len(huffman_string)
    /\ pc' = "done"
    /\ UNCHANGED <<new_phrase, char_tally, tally_list, node_tree, huffman_code,
                   encoded_string, original_size, new_size, huffman_dict,
                   huffman_string, i, text, temp_huff, raised>>

Next ==
    \/ Tally
    \/ BuildNodesCall
    \/ BuildNodesIter
    \/ BuildNodesReturn
    \/ HuffmanEncode
    \/ CreateHuffmanString
    \/ Sizes
    \/ DecodeCall
    \/ DecodeStep
    \/ DecodeReturn

Spec == Init /\ [][Next]_vars

---------------------------------------------------------------------------
\* decode called on its own, on any code table and any bitstring

\* Code tables with keys TableKeys[1..n] and any codes of at most MaxCodeLen bits.
Tables ==
    UNION {{[k \in 1..n |-> <<TableKeys[k], c[k]>>] : c \in [1..n -> StrUpTo(Bit, MaxCodeLen)]}
           : n \in 1..Len(TableKeys)}

InitDecode ==
    /\ huffman_dict \in Tables
    /\ huffman_string \in StrUpTo(Bit, MaxBits)
    /\ pc = "decode_loop"
    /\ text = <<>>
    /\ temp_huff = <<>>
    /\ i = 0
    /\ new_phrase = <<>>
    /\ char_tally = <<>>
    /\ tally_list = <<>>
    /\ node_tree = <<>>
    /\ huffman_code = <<>>
    /\ encoded_string = <<>>
    /\ original_size = 0
    /\ new_size = 0
    /\ raised = "none"

NextDecode ==
    \/ DecodeStep
    \/ DecodeReturn

SpecDecode == InitDecode /\ [][NextDecode]_vars

---------------------------------------------------------------------------
\* Notions the properties are stated with

\* c is a prefix of d (or equal to it)
IsPrefix(c, d) == Len(c) <= Len(d) /\ SubSeq(d, 1, Len(c)) = c

\* The concatenation, in order, of the codes table gives the symbols of S
RECURSIVE CodesOf(_, _)
CodesOf(S, table) ==
    IF Len(S) = 0 THEN <<>>
    ELSE CodesOf(Front(S), table) \o Get(table, S[Len(S)])

Keys(dict) == {dict[k][1] : k \in 1..Len(dict)}

Occurrences(S, c) == Cardinality({k \in 1..Len(S) : S[k] = c})

RECURSIVE SumCounts(_)
SumCounts(list) ==
    IF Len(list) = 0 THEN 0 ELSE SumCounts(Front(list)) + list[Len(list)][2]

\* Number of internal nodes of a subtree
RECURSIVE Internal(_)
Internal(node) ==
    IF IsStr(node) THEN 0 ELSE 1 + Internal(node.left) + Internal(node.right)

RECURSIVE TotalInternal(_)
TotalInternal(list) ==
    IF Len(list) = 0 THEN 0
    ELSE TotalInternal(Front(list)) + Internal(list[Len(list)][1])

\* No code of the table is a prefix of (or equal to) the code of another entry
PrefixFree(table) ==
    \A j, k \in 1..Len(table) :
        table[j][1] # table[k][1] => ~IsPrefix(table[j][2], table[k][2])

NonEmptyCodes(table) == \A k \in 1..Len(table) : Len(table[k][2]) > 0

\* The pipeline has computed the code table / the encoded string / has finished
HasTable == pc \in {"create_huffman_string", "sizes", "decode", "decode_loop", "done"}
HasString == pc \in {"sizes", "decode", "decode_loop", "done"}
HasSizes == pc \in {"decode", "decode_loop", "done"}
Distinct == Cardinality({new_phrase[k] : k \in 1..Len(new_phrase)})

---------------------------------------------------------------------------
\* C1: round trip: for every non-empty phrase, decoding the encoder's output
\* with the code table derived from the phrase gives back the phrase.
C1_RoundTrip ==
    (pc = "done" /\ Len(new_phrase) > 0) => text = new_phrase

\* C2: the encoded string is the concatenation, in input order, of the codes
\* of the phrase's symbols, so its length is what size_of_coded computes.
C2_EncodedIsConcatenation ==
    /\ HasString => encoded_string = CodesOf(new_phrase, huffman_code)
    /\ HasSizes => Len(encoded_string) = new_size

\* C3: prefix-free: in the code table derived from a non-empty phrase no
\* code of one symbol is a prefix of, or equal to, the code of another symbol.
C3_PrefixFree ==
    (HasTable /\ Len(new_phrase) > 0) => PrefixFree(huffman_code)

C3_Witness ==
    /\ pc = "create_huffman_string"
    /\ Len(huffman_code) = 3
    /\ \E j, k \in 1..3 : Len(huffman_code[j][2]) = 1 /\ Len(huffman_code[k][2]) = 2

\* C4: single-symbol edge case: for a phrase of one symbol repeated n >= 1
\* times the symbol's code is non-empty and the phrase round-trips.
C4_SingleSymbol ==
    (pc = "done" /\ Len(new_phrase) >= 1 /\ Distinct = 1) =>
        /\ Len(Get(huffman_code, new_phrase[1])) > 0
        /\ text = new_phrase

\* C5: building the tree from the empty tally fails with EmptyInputError and
\* returns no value to the pipeline.
C5_EmptyInputError ==
    (Len(new_phrase) = 0 /\ pc \notin {"tally", "build_nodes", "build_loop"}) =>
        raised = "EmptyInputError"

\* C6: decode fails with MalformedBitstream when a non-empty unmatched
\* prefix is left after the last bit; it never returns with leftover bits.
C6_MalformedBitstream ==
    (pc = "done" /\ Len(temp_huff) > 0) => raised = "MalformedBitstream"

\* C7: size bound: for a phrase with more than one distinct symbol the
\* encoded string has at most 8 * len(phrase) bits.
C7_SizeBound ==
    (HasSizes /\ Distinct > 1) => Len(encoded_string) <= original_size

\* C8: tally holds each distinct symbol of the phrase exactly once, with a
\* positive count equal to its number of occurrences; the counts sum to the
\* length of the phrase, and the empty phrase gives the empty tally.
C8_Tally ==
    pc # "tally" =>
        /\ \A c \in Symbols :
             Cardinality({k \in 1..Len(char_tally) : char_tally[k][1] = c})
               = IF Occurrences(new_phrase, c) > 0 THEN 1 ELSE 0
        /\ \A k \in 1..Len(char_tally) :
             /\ char_tally[k][2] > 0
             /\ char_tally[k][2] = Occurrences(new_phrase, char_tally[k][1])
        /\ SumCounts(char_tally) = Len(new_phrase)
        /\ Len(new_phrase) = 0 => char_tally = <<>>

C8_Witness ==
    /\ pc = "build_nodes"
    /\ Len(char_tally) = 3
    /\ char_tally[1][2] = 2

\* One iteration of build_nodes' loop takes two items of smallest frequency
\* out of the list and puts in one internal node over them, with their sum.
MergesTwoSmallest(before, after) ==
    \E j, k \in 1..Len(before) :
        /\ j # k
        /\ \A m \in (1..Len(before)) \ {j, k} :
             /\ before[m][2] >= before[j][2]
             /\ before[m][2] >= before[k][2]
        /\ \E p \in 1..Len(after) :
             /\ ~IsStr(after[p][1])
             /\ after[p][1].left = before[j][1]
             /\ after[p][1].right = before[k][1]
             /\ after[p][2] = before[j][2] + before[k][2]
             /\ Len(after) = Len(before) - 1
             /\ {after[m] : m \in (1..Len(after)) \ {p}}
                  = {before[m] : m \in (1..Len(before)) \ {j, k}}

\* C9: every iteration of build_nodes merges two items of smallest frequency
\* into one internal node with the sum of their frequencies; after m merges
\* N - m items are left, and the loop ends after N - 1 merges with one item
\* whose frequency is the sum of all frequencies of the tally.
C9_BuildNodes ==
    /\ [][(pc = "build_loop" /\ Len(tally_list) > 1)
             => MergesTwoSmallest(tally_list, tally_list')]_vars
    /\ [](pc = "build_loop" =>
             Len(tally_list) + TotalInternal(tally_list) = Len(char_tally))
    /\ []((pc = "huffman_encode" /\ Len(char_tally) >= 1) =>
             /\ Len(node_tree) = 1
             /\ Internal(node_tree[1][1]) = Len(char_tally) - 1
             /\ node_tree[1][2] = SumCounts(char_tally))

C9_Witness ==
    /\ pc = "huffman_encode"
    /\ Len(char_tally) = 4
    /\ Len(node_tree) = 1
    /\ Internal(node_tree[1][1]) = 3

\* The symbol sequences S over the table's keys with CodesOf(S, table) = bits,
\* for a table of non-empty codes: S starts with a key whose code starts bits
\* and goes on with a sequence for the rest of bits.
RECURSIVE Decodings(_, _)
Decodings(bits, table) ==
    IF Len(bits) = 0 THEN {<<>>}
    ELSE UNION {{<<table[k][1]>> \o R :
                   R \in Decodings(SubSeq(bits, Len(table[k][2]) + 1, Len(bits)), table)}
                : k \in {m \in 1..Len(table) : IsPrefix(table[m][2], bits)}}

\* Decodings leaves out no symbol sequence that encodes to the bitstring.
DecodingsComplete ==
    NonEmptyCodes(huffman_dict) =>
        Decodings(huffman_string, huffman_dict)
          = {S \in StrUpTo(Keys(huffman_dict), Len(huffman_string)) :
                CodesOf(S, huffman_dict) = huffman_string}

\* C10: with a prefix-free code table of non-empty codes and the bitstring
\* that is the concatenation of the codes of a symbol sequence S, decode
\* returns S, and at each symbol boundary temp_huff is empty (and text is
\* the part of S decoded so far).
C10_Decode ==
    (PrefixFree(huffman_dict) /\ NonEmptyCodes(huffman_dict)) =>
        \A S \in Decodings(huffman_string, huffman_dict) :
            huffman_string = CodesOf(S, huffman_dict) =>
                /\ pc = "done" => text = S
                /\ \A n \in 0..Len(S) :
                     i = Len(CodesOf(SubSeq(S, 1, n), huffman_dict)) =>
                         /\ temp_huff = <<>>
                         /\ text = SubSeq(S, 1, n)

C10_Witness ==
    /\ pc = "done"
    /\ Len(huffman_dict) = 3
    /\ PrefixFree(huffman_dict) /\ NonEmptyCodes(huffman_dict)
    /\ text = <<"c", "a", "b">>
    /\ huffman_string = CodesOf(text, huffman_dict)

=============================================================================
